---- MODULE Spec2Model ----
(***************************************************************************)
(* Model of the FitAura adaptive training engine:                          *)
(*   training_engine.js  (TrainingEngine)                                  *)
(*   autoregulator.js    (Autoregulator)                                   *)
(*   transparency.js     (TransparencyService)                             *)
(*   models.js           (User, Exercise, Workout, Feedback, ...)          *)
(*                                                                         *)
(* Representation.                                                         *)
(*  - JavaScript strings that the code inspects or builds (exercise names, *)
(*    exercise ids, pain flags) are sequences of one-character strings, so *)
(*    String.includes, String.toLowerCase and + are modelled by what they  *)
(*    do on characters.                                                    *)
(*  - Weights are integers in grams (100 kg = 100000), so the factors      *)
(*    0.95, 1.025 and 0.7 are computed exactly.  The code computes them in *)
(*    IEEE doubles: a product may differ from the exact one in its last    *)
(*    bit (100 * 1.025 = 102.49999999999999), and on the weights used here *)
(*    (20, 60, 80, 100 kg) Math.round(x / 2.5) * 2.5 gives the same result *)
(*    as the exact computation.  It does not on 50 kg, where the exact     *)
(*    quotient is the tie 20.5 and the double is 20.499999999999996.       *)
(*  - RPE values are integers in tenths (RPE 9.5 = 95).                    *)
(*  - Objects live in a heap (a sequence of records, an object reference   *)
(*    is an index), so that aliasing and in-place mutation are visible.    *)
(*  - An optional argument is a sequence of length 0 (undefined) or 1.     *)
(***************************************************************************)
EXTENDS Integers, Sequences, FiniteSets, TLC

VARIABLES
    heap,                   \* the JavaScript heap: Seq of objects
    plannedWorkout,         \* reference of the caller's plan
    snapshot,               \* deep value of the plan taken before the call
    dailyFeedback,          \* Feedback record of the call
    lastPerformances,       \* Seq of ExercisePerformance records
    pc,                     \* position inside the running function
    adjustedWorkout,        \* local: reference of the working workout
    explanations,           \* local: Seq of explanation texts
    readiness,              \* local: readiness score
    volumeAdjustmentResult, \* local: result of Autoregulator.adjustVolume
    result,                 \* value returned by generateDailyWorkout
    args,                   \* arguments of a direct call of a pure function
    ret                     \* value returned by a direct call

vars == <<heap, plannedWorkout, snapshot, dailyFeedback, lastPerformances, pc,
          adjustedWorkout, explanations, readiness, volumeAdjustmentResult,
          result, args, ret>>

-----------------------------------------------------------------------------
(* Bounds of the model *)

MaxExercises == 2
MaxFlags == 2
MaxHistory == 2

-----------------------------------------------------------------------------
(* String literals of the program, as character sequences *)

BarbellSquat == <<"B", "a", "r", "b", "e", "l", "l", " ", "S", "q", "u", "a", "t">>
BenchPress == <<"B", "e", "n", "c", "h", " ", "P", "r", "e", "s", "s">>
BarbellRow == <<"B", "a", "r", "b", "e", "l", "l", " ", "R", "o", "w">>
GluteBridge == <<"G", "l", "u", "t", "e", " ", "B", "r", "i", "d", "g", "e">>
PushUpNeutralGrip == <<"P", "u", "s", "h", "-", "u", "p", " ", "(", "N", "e", "u", "t", "r", "a", "l", " ", "G", "r", "i", "p", ")">>
ChestSupportedRow == <<"C", "h", "e", "s", "t", " ", "S", "u", "p", "p", "o", "r", "t", "e", "d", " ", "R", "o", "w">>
RestPrefix == <<"R", "e", "s", "t", " ", "(">>
RestSuffix == <<" ", "p", "a", "i", "n", ")">>
Squat == <<"S", "q", "u", "a", "t">>
Lunge == <<"L", "u", "n", "g", "e">>
LegPress == <<"L", "e", "g", " ", "P", "r", "e", "s", "s">>
OverheadPress == <<"O", "v", "e", "r", "h", "e", "a", "d", " ", "P", "r", "e", "s", "s">>
Dip == <<"D", "i", "p">>
Deadlift == <<"D", "e", "a", "d", "l", "i", "f", "t">>
Row == <<"R", "o", "w">>
GoodMorning == <<"G", "o", "o", "d", " ", "M", "o", "r", "n", "i", "n", "g">>
knee == <<"k", "n", "e", "e">>
shoulder == <<"s", "h", "o", "u", "l", "d", "e", "r">>
back == <<"b", "a", "c", "k">>
SubSuffix == <<"_", "s", "u", "b">>
id_rest == <<"r", "e", "s", "t">>

(* Strings of the inputs *)
left_knee == <<"l", "e", "f", "t", "_", "k", "n", "e", "e">>
Lower_Back == <<"L", "o", "w", "e", "r", "_", "B", "a", "c", "k">>
id_sq == <<"s", "q">>
id_bp == <<"b", "p">>
id_row == <<"r", "o", "w">>
SquatToOverheadPress == <<"S", "q", "u", "a", "t", " ", "t", "o", " ", "O", "v", "e", "r", "h", "e", "a", "d", " ", "P", "r", "e", "s", "s">>
id_th == <<"t", "h">>

-----------------------------------------------------------------------------
(* JavaScript built-ins *)

UpperCase == <<"A", "B", "C", "D", "E", "F", "G", "H", "I", "J", "K", "L", "M",
               "N", "O", "P", "Q", "R", "S", "T", "U", "V", "W", "X", "Y", "Z">>
LowerCase == <<"a", "b", "c", "d", "e", "f", "g", "h", "i", "j", "k", "l", "m",
               "n", "o", "p", "q", "r", "s", "t", "u", "v", "w", "x", "y", "z">>

\* String.prototype.toLowerCase
toLowerCase(s) ==
    [i \in 1..Len(s) |->
        IF \E k \in 1..Len(UpperCase) : UpperCase[k] = s[i]
        THEN LowerCase[CHOOSE k \in 1..Len(UpperCase) : UpperCase[k] = s[i]]
        ELSE s[i]]

\* String.prototype.includes
includes(s, sub) ==
    \E i \in 0..(Len(s) - Len(sub)) : SubSeq(s, i + 1, i + Len(sub)) = sub

MathMax(a, b) == IF a >= b THEN a ELSE b
MathMin(a, b) == IF a <= b THEN a ELSE b

-----------------------------------------------------------------------------
(* TrainingEngine.calculateReadiness *)

baselineReadiness == 80

\* calculateReadiness with the final clamp lost and the good-sleep bonus
\* mistyped as 25
calculateReadiness_noClamp(feedback) ==
    LET s0 == baselineReadiness
        s1 == IF feedback.sleepQuality <= 4 THEN s0 - 20
              ELSE IF feedback.sleepQuality <= 6 THEN s0 - 10
              ELSE IF feedback.sleepQuality >= 8 THEN s0 + 25
              ELSE s0
        s2 == IF feedback.soreness >= 4 THEN s1 - 10 ELSE s1
        s3 == IF feedback.soreness = 5 THEN s2 - 20 ELSE s2
        s4 == IF feedback.stressLevel = "High" THEN s3 - 15 ELSE s3
    IN  s4

\* calculateReadiness whose poor-sleep bucket reaches up to 5
calculateReadiness_sleep5(feedback) ==
    LET s0 == baselineReadiness
        s1 == IF feedback.sleepQuality <= 5 THEN s0 - 20
              ELSE IF feedback.sleepQuality <= 6 THEN s0 - 10
              ELSE IF feedback.sleepQuality >= 8 THEN s0 + 5
              ELSE s0
        s2 == IF feedback.soreness >= 4 THEN s1 - 10 ELSE s1
        s3 == IF feedback.soreness = 5 THEN s2 - 20 ELSE s2
        s4 == IF feedback.stressLevel = "High" THEN s3 - 15 ELSE s3
    IN  MathMax(0, MathMin(100, s4))

calculateReadiness(feedback) ==
    LET s0 == baselineReadiness
        s1 == IF feedback.sleepQuality <= 4 THEN s0 - 20
              ELSE IF feedback.sleepQuality <= 6 THEN s0 - 10
              ELSE IF feedback.sleepQuality >= 8 THEN s0 + 5
              ELSE s0
        s2 == IF feedback.soreness >= 4 THEN s1 - 10 ELSE s1
        s3 == IF feedback.soreness = 5 THEN s2 - 20 ELSE s2
        s4 == IF feedback.stressLevel = "High" THEN s3 - 15 ELSE s3
    IN  MathMax(0, MathMin(100, s4))

-----------------------------------------------------------------------------
(* Autoregulator.adjustLoad *)

\* adjustLoad whose missed-reps rule was moved behind the RPE rules
adjustLoad_rpeFirst(currentWeight, rpe, targetRpeOpt, missedRepsOpt) ==
    LET targetRpe == IF targetRpeOpt = <<>> THEN 80 ELSE targetRpeOpt[1]
        missedReps == IF missedRepsOpt = <<>> THEN FALSE ELSE missedRepsOpt[1]
    IN  IF rpe <= targetRpe - 10
        THEN [newWeight |-> (currentWeight * 1025) \div 1000,
              adjustmentType |-> "LOAD_INCREASE"]
        ELSE IF rpe >= 95 \/ missedReps
        THEN [newWeight |-> (currentWeight * 95) \div 100,
              adjustmentType |-> "LOAD_DECREASE"]
        ELSE [newWeight |-> currentWeight, adjustmentType |-> "MAINTENANCE"]

\* targetRpeOpt, missedRepsOpt: <<>> when the argument is undefined (the
\* default parameter value applies), <<v>> otherwise
adjustLoad(currentWeight, rpe, targetRpeOpt, missedRepsOpt) ==
    LET targetRpe == IF targetRpeOpt = <<>> THEN 80 ELSE targetRpeOpt[1]
        missedReps == IF missedRepsOpt = <<>> THEN FALSE ELSE missedRepsOpt[1]
    IN  IF missedReps
        THEN [newWeight |-> (currentWeight * 95) \div 100,
              adjustmentType |-> "LOAD_DECREASE"]
        ELSE IF rpe <= targetRpe - 10
        THEN [newWeight |-> (currentWeight * 1025) \div 1000,
              adjustmentType |-> "LOAD_INCREASE"]
        ELSE IF rpe >= 95
        THEN [newWeight |-> (currentWeight * 95) \div 100,
              adjustmentType |-> "LOAD_DECREASE"]
        ELSE [newWeight |-> currentWeight, adjustmentType |-> "MAINTENANCE"]

-----------------------------------------------------------------------------
(* Heap and JSON.parse(JSON.stringify(x)) *)

\* the deep value of a workout object: its exercise references replaced by
\* the exercise objects they point to
DeepValue(h, w) ==
    [h[w] EXCEPT !.exercises = [i \in 1..Len(h[w].exercises) |-> h[h[w].exercises[i]]]]

\* JSON round trip of a Date: it comes back as its ISO string
JsonDate(d) == [isDate |-> FALSE, iso |-> d.iso]

\* no copy at all: the same object is handed back
JsonClone_alias(h, w) == [heap |-> h, ref |-> w]

\* JSON.parse(JSON.stringify(workout)): fresh objects for the workout and
\* for each of its exercises, appended to the heap
JsonClone(h, w) ==
    LET n == Len(h[w].exercises)
        copies == [i \in 1..n |-> h[h[w].exercises[i]]]
        wcopy == [h[w] EXCEPT !.exercises = [i \in 1..n |-> Len(h) + i],
                              !.date = JsonDate(h[w].date)]
    IN  [heap |-> h \o copies \o <<wcopy>>, ref |-> Len(h) + n + 1]

-----------------------------------------------------------------------------
(* Autoregulator.adjustVolume *)

\* a is the address of an exercise object of workout w
IsExerciseOf(h, w, a) == \E i \in 1..Len(h[w].exercises) : h[w].exercises[i] = a

\* the deload without the floor of one set
DeloadSets_noMin(ex) == [ex EXCEPT !.sets = ex.sets \div 2]

DeloadSets(ex) == [ex EXCEPT !.sets = MathMax(1, ex.sets \div 2)]
ReduceSets(ex) == IF ex.sets > 1 THEN [ex EXCEPT !.sets = ex.sets - 1] ELSE ex

\* the heap after the forEach of the deload branch over the exercises of w
DeloadAll(h, w) ==
    [a \in 1..Len(h) |-> IF IsExerciseOf(h, w, a) THEN DeloadSets(h[a]) ELSE h[a]]

\* the heap after the forEach of the reduction branch over the exercises of w
ReduceAll(h, w) ==
    [a \in 1..Len(h) |-> IF IsExerciseOf(h, w, a) THEN ReduceSets(h[a]) ELSE h[a]]

\* adjustVolume whose thresholds use <= instead of <
adjustVolume_inclusive(h, w, readinessScore) ==
    LET c == JsonClone(h, w)
    IN  IF readinessScore <= 40
        THEN [heap |-> DeloadAll(c.heap, c.ref),
              workout |-> c.ref, type |-> "DELOAD"]
        ELSE IF readinessScore <= 60
        THEN [heap |-> ReduceAll(c.heap, c.ref),
              workout |-> c.ref, type |-> "VOLUME_REDUCTION"]
        ELSE [heap |-> c.heap, workout |-> c.ref, type |-> "MAINTENANCE"]

adjustVolume(h, w, readinessScore) ==
    LET c == JsonClone(h, w)
    IN  IF readinessScore < 40
        THEN [heap |-> DeloadAll(c.heap, c.ref),
              workout |-> c.ref, type |-> "DELOAD"]
        ELSE IF readinessScore < 60
        THEN [heap |-> ReduceAll(c.heap, c.ref),
              workout |-> c.ref, type |-> "VOLUME_REDUCTION"]
        ELSE [heap |-> c.heap, workout |-> c.ref, type |-> "MAINTENANCE"]

-----------------------------------------------------------------------------
(* TransparencyService.explainAdjustment *)

\* null; undefined is NoValue
Null == [null |-> TRUE]

IsNullish(v) == "none" \in DOMAIN v \/ "null" \in DOMAIN v

\* the outcome of a call that threw a TypeError
TypeError == [error |-> "TypeError"]

\* context.name: reading a property of null or undefined throws, a property
\* the object lacks reads as undefined
GetProp(context, name) ==
    IF name \in DOMAIN context THEN context[name] ELSE [none |-> TRUE]

\* the text of a template literal that reads the given properties of context
Interpolate(template, context, names) ==
    IF IsNullish(context) THEN TypeError
    ELSE [template |-> template,
          fields |-> [i \in 1..Len(names) |-> GetProp(context, names[i])]]

\* The returned text is the template of the kind with the context fields it
\* interpolates; the fallback text has no fields.
explainAdjustment(adjustmentType, context) ==
    CASE adjustmentType = "LOAD_INCREASE" ->
            Interpolate("LOAD_INCREASE", context, <<"lastRpe", "increaseAmount">>)
      [] adjustmentType = "LOAD_DECREASE" ->
            Interpolate("LOAD_DECREASE", context, <<"lastRpe">>)
      [] adjustmentType = "VOLUME_REDUCTION" ->
            Interpolate("VOLUME_REDUCTION", context, <<"sleepHours", "setsRemoved">>)
      [] adjustmentType = "DELOAD" ->
            [template |-> "DELOAD", fields |-> <<>>]
      [] adjustmentType = "INJURY_SUBSTITUTION" ->
            Interpolate("INJURY_SUBSTITUTION", context,
                <<"painLocation", "originalExercise", "newExercise">>)
      [] adjustmentType = "MAINTENANCE" ->
            [template |-> "MAINTENANCE", fields |-> <<>>]
      [] OTHER -> [template |-> "default", fields |-> <<>>]

-----------------------------------------------------------------------------
(* TrainingEngine.isExerciseRisky, TrainingEngine.getSafeSubstitution *)

riskMap ==
    <<[key |-> knee, riskyList |-> <<Squat, Lunge, LegPress>>],
      [key |-> shoulder, riskyList |-> <<BenchPress, OverheadPress, Dip>>],
      [key |-> back, riskyList |-> <<Deadlift, Row, GoodMorning>>]>>

isExerciseRisky(exercise, painArea) ==
    \E k \in 1..Len(riskMap) :
        /\ includes(toLowerCase(painArea), riskMap[k].key)
        /\ \E r \in 1..Len(riskMap[k].riskyList) :
               includes(exercise.name, riskMap[k].riskyList[r])

getSafeSubstitution(exercise, painArea) ==
    IF includes(painArea, knee)
    THEN [name |-> GluteBridge, weight |-> 0, sets |-> 3, reps |-> 15,
          id |-> exercise.id \o SubSuffix]
    ELSE IF includes(painArea, shoulder)
    THEN [name |-> PushUpNeutralGrip, weight |-> 0, sets |-> 3, reps |-> 12,
          id |-> exercise.id \o SubSuffix]
    ELSE IF includes(painArea, back)
    THEN [name |-> ChestSupportedRow, weight |-> (exercise.weight * 7) \div 10,
          sets |-> 3, reps |-> 10, id |-> exercise.id \o SubSuffix]
    ELSE [name |-> RestPrefix \o painArea \o RestSuffix, id |-> id_rest,
          weight |-> 0, sets |-> 0, reps |-> 0]

-----------------------------------------------------------------------------
(* TrainingEngine.generateDailyWorkout *)

\* Math.round(x / 2.5) * 2.5 on a non-negative weight in grams
\* (Math.round rounds a half up)
RoundToPlate(g) == ((2 * g + 2500) \div 5000) * 2500

\* Number.prototype.toFixed(1) of a weight difference in grams: the value in
\* tenths of a kg, a half rounded away from zero
toFixed1(d) ==
    IF d >= 0 THEN (d + 50) \div 100 ELSE 0 - ((50 - d) \div 100)

\* Array.prototype.find(p => p.exerciseId === id): index of the first match,
\* 0 when there is none (undefined)
RECURSIVE findFrom(_, _, _)
findFrom(perfs, id, k) ==
    IF k > Len(perfs) THEN 0
    ELSE IF perfs[k].exerciseId = id THEN k
    ELSE findFrom(perfs, id, k + 1)

find(perfs, id) == findFrom(perfs, id, 1)

\* Array.prototype.push with the element in front (unshift)
push_front(arr, x) == <<x>> \o arr

\* Array.prototype.push
push(arr, x) == Append(arr, x)

\* An entry of the explanations array: the text, annotated with the rule
\* evaluation that pushed it (stage 1 safety, 2 volume, 3 load; index of the
\* pain flag; exercise slot).  The annotation is a history record of the
\* model, not part of the returned string.
Explanation(text, stage, flag, slot) ==
    [text |-> text, origin |-> <<stage, flag, slot>>]

\* adjustedWorkout.exercises.splice(index, 1): the slot is removed
ReplaceSlot_splice(h, w, index, sub) ==
    [h EXCEPT ![w].exercises =
        [j \in 1..(Len(h[w].exercises) - 1) |->
            IF j < index THEN h[w].exercises[j] ELSE h[w].exercises[j + 1]]]

\* adjustedWorkout.exercises[index] = sub, sub a fresh object
ReplaceSlot(h, w, index, sub) ==
    [Append(h, sub) EXCEPT ![w].exercises[index] = Len(h) + 1]

\* 1. Safety Check: the nested forEach over pain flags (f) and exercise
\* slots (i) of the working workout w
RECURSIVE SafetyLoop(_, _, _, _, _, _)
SafetyLoop(h, w, flags, expl, f, i) ==
    IF f > Len(flags) THEN [heap |-> h, explanations |-> expl]
    ELSE IF i > Len(h[w].exercises) THEN SafetyLoop(h, w, flags, expl, f + 1, 1)
    ELSE
        LET ex == h[h[w].exercises[i]]
            painArea == flags[f]
        IN  IF isExerciseRisky(ex, painArea)
            THEN LET sub == getSafeSubstitution(ex, painArea)
                     h3 == ReplaceSlot(h, w, i, sub)
                     e2 == push(expl, Explanation(
                              explainAdjustment("INJURY_SUBSTITUTION",
                                  [painLocation |-> painArea,
                                   originalExercise |-> ex.name,
                                   newExercise |-> sub.name]), 1, f, i))
                 IN  SafetyLoop(h3, w, flags, e2, f, i + 1)
            ELSE SafetyLoop(h, w, flags, expl, f, i + 1)

SafetyCheck(h, w, flags, expl) == SafetyLoop(h, w, flags, expl, 1, 1)

\* 3. Load Progression: the forEach over the exercises of the working workout
RECURSIVE LoadLoop(_, _, _, _, _)
LoadLoop(h, w, perfs, expl, i) ==
    IF i > Len(h[w].exercises) THEN [heap |-> h, explanations |-> expl]
    ELSE
        LET a == h[w].exercises[i]
            currentEx == h[a]
            k == find(perfs, currentEx.id)
        IN  IF k = 0 THEN LoadLoop(h, w, perfs, expl, i + 1)
            ELSE
              LET lastPerf == perfs[k]
                  adjustment ==
                      adjustLoad(lastPerf.weight, lastPerf.rpe,
                          IF "rpeTarget" \in DOMAIN currentEx
                          THEN <<currentEx.rpeTarget>> ELSE <<>>,
                          <<lastPerf.completedReps < currentEx.reps>>)
              IN  IF adjustment.adjustmentType # "MAINTENANCE"
                  THEN LET nw == RoundToPlate(adjustment.newWeight)
                           h2 == [h EXCEPT ![a].weight = nw]
                           e2 == push(expl, Explanation(
                                    explainAdjustment(adjustment.adjustmentType,
                                        [lastRpe |-> lastPerf.rpe,
                                         increaseAmount |->
                                             toFixed1(nw - lastPerf.weight)]),
                                    3, 0, i))
                       IN  LoadLoop(h2, w, perfs, e2, i + 1)
                  ELSE LoadLoop([h EXCEPT ![a].weight = lastPerf.weight],
                                w, perfs, expl, i + 1)

LoadProgression(h, w, perfs, expl) == LoadLoop(h, w, perfs, expl, 1)

\* lines 47-66: clone the plan, then the safety check
SafetyStage ==
    /\ pc = "safety"
    /\ LET c == JsonClone(heap, plannedWorkout)
           r == SafetyCheck(c.heap, c.ref, dailyFeedback.painFlags, <<>>)
       IN  /\ heap' = r.heap
           /\ adjustedWorkout' = c.ref
           /\ explanations' = r.explanations
    /\ pc' = "volume"
    /\ UNCHANGED <<plannedWorkout, snapshot, dailyFeedback, lastPerformances,
                   readiness, volumeAdjustmentResult, result, args, ret>>

\* lines 68-78: readiness and volume adjustment
VolumeStage ==
    /\ pc = "volume"
    /\ LET score == calculateReadiness(dailyFeedback)
           v == adjustVolume(heap, adjustedWorkout, score)
       IN  /\ readiness' = score
           /\ heap' = v.heap
           /\ volumeAdjustmentResult' = [workout |-> v.workout, type |-> v.type]
           /\ IF v.type # "MAINTENANCE"
              THEN /\ explanations' =
                        push(explanations, Explanation(
                            explainAdjustment(v.type,
                                [sleepHours |-> dailyFeedback.sleepQuality,
                                 setsRemoved |->
                                     IF v.type = "DELOAD" THEN "50%" ELSE "20%"]),
                            2, 0, 0))
                   /\ adjustedWorkout' = v.workout
              ELSE UNCHANGED <<explanations, adjustedWorkout>>
    /\ pc' = "load"
    /\ UNCHANGED <<plannedWorkout, snapshot, dailyFeedback, lastPerformances,
                   result, args, ret>>

\* load progression without the readiness gate
LoadStage_ungated ==
    /\ pc = "load"
    /\ LET r == LoadProgression(heap, adjustedWorkout, lastPerformances,
                                explanations)
       IN  /\ heap' = r.heap
           /\ explanations' = r.explanations
    /\ pc' = "return"
    /\ UNCHANGED <<plannedWorkout, snapshot, dailyFeedback, lastPerformances,
                   adjustedWorkout, readiness, volumeAdjustmentResult, result,
                   args, ret>>

\* lines 80-108: load progression, only when readiness >= 40
LoadStage ==
    /\ pc = "load"
    /\ IF readiness >= 40
       THEN LET r == LoadProgression(heap, adjustedWorkout, lastPerformances,
                                     explanations)
            IN  /\ heap' = r.heap
                /\ explanations' = r.explanations
       ELSE UNCHANGED <<heap, explanations>>
    /\ pc' = "return"
    /\ UNCHANGED <<plannedWorkout, snapshot, dailyFeedback, lastPerformances,
                   adjustedWorkout, readiness, volumeAdjustmentResult, result,
                   args, ret>>

\* lines 110-114: the returned object
Return ==
    /\ pc = "return"
    /\ result' = [readinessScore |-> readiness, workout |-> adjustedWorkout,
                  explanations |-> explanations]
    /\ pc' = "done"
    /\ UNCHANGED <<heap, plannedWorkout, snapshot, dailyFeedback,
                   lastPerformances, adjustedWorkout, explanations, readiness,
                   volumeAdjustmentResult, args, ret>>

-----------------------------------------------------------------------------
(* Inputs of a call of generateDailyWorkout *)

\* new Exercise(id, name, type, muscleGroups, weight, sets, reps, rpeTarget = 8)
Exercise(id, name, type, muscleGroups, weight, sets, reps) ==
    [id |-> id, name |-> name, type |-> type, muscleGroups |-> muscleGroups,
     weight |-> weight, sets |-> sets, reps |-> reps, rpeTarget |-> 80]

\* new ExercisePerformance(exerciseId, weight, completedReps, completedSets, rpe)
ExercisePerformance(exerciseId, weight, completedReps, completedSets, rpe) ==
    [exerciseId |-> exerciseId, weight |-> weight,
     completedReps |-> completedReps, completedSets |-> completedSets,
     rpe |-> rpe]

\* new Feedback(sleepQuality, soreness, stressLevel, painFlags)
Feedback(sleepQuality, soreness, stressLevel, painFlags) ==
    [sleepQuality |-> sleepQuality, soreness |-> soreness,
     stressLevel |-> stressLevel, painFlags |-> painFlags]

\* new Workout(id, userId, name, exercises, date = new Date()), with the
\* exercise objects at heap addresses 1..n and the workout at n + 1
WorkoutHeap(exs) ==
    exs \o <<[id |-> "w1", userId |-> "u1", name |-> "Full Body A",
              exercises |-> [i \in 1..Len(exs) |-> i],
              date |-> [isDate |-> TRUE, iso |-> "2024-01-01T00:00:00.000Z"]]>>

\* the exercises of the plans: those of the test scenarios
ExerciseCatalog ==
    {Exercise(id_sq, BarbellSquat, "compound", <<"quads">>, 100000, 3, 5),
     Exercise(id_bp, BenchPress, "compound", <<"chest">>, 80000, 3, 5),
     Exercise(id_row, BarbellRow, "compound", <<"back">>, 60000, 3, 10)}

\* records of the previous session: an easy squat session (load increase),
\* a bench session on target at a weight other than the planned one
\* (maintenance), and a session of the back substitute with missed reps
PerformanceCatalog ==
    {ExercisePerformance(id_sq, 100000, 5, 3, 70),
     ExercisePerformance(id_bp, 60000, 5, 3, 80),
     ExercisePerformance(id_row \o SubSuffix, 20000, 4, 3, 70)}

\* the flag of test scenario C, a back flag, and a back flag written with
\* capitals
PainAreas == {left_knee, back, Lower_Back}

\* <<sleepQuality, soreness, stressLevel>>: the feedback of test scenario A
\* (readiness 85) and two of extreme soreness (readiness 40 and 25)
FeedbackCases == {<<8, 2, "Low">>, <<8, 5, "High">>, <<5, 5, "High">>}

\* sequences over S of length at most n
SeqsUpTo(S, n) == UNION {[1..m -> S] : m \in 0..n}

\* sequences of pairwise different exercises (ids are unique in a workout)
Plans ==
    {p \in SeqsUpTo(ExerciseCatalog, MaxExercises) :
        \A i, j \in 1..Len(p) : i # j => p[i].id # p[j].id}

NoValue == [none |-> TRUE]

Init ==
    /\ \E p \in Plans :
          /\ heap = WorkoutHeap(p)
          /\ plannedWorkout = Len(p) + 1
          /\ snapshot = DeepValue(WorkoutHeap(p), Len(p) + 1)
    /\ \E fb \in FeedbackCases, fl \in SeqsUpTo(PainAreas, MaxFlags) :
          dailyFeedback = Feedback(fb[1], fb[2], fb[3], fl)
    /\ lastPerformances \in SeqsUpTo(PerformanceCatalog, MaxHistory)
    /\ pc = "safety"
    /\ adjustedWorkout = 0
    /\ explanations = <<>>
    /\ readiness = 0
    /\ volumeAdjustmentResult = NoValue
    /\ result = NoValue
    /\ args = NoValue
    /\ ret = NoValue

Next == SafetyStage \/ VolumeStage \/ LoadStage \/ Return

Spec == Init /\ [][Next]_vars

-----------------------------------------------------------------------------
(* Direct calls of the pure functions *)

Idle ==
    /\ heap = <<>>
    /\ plannedWorkout = 0
    /\ snapshot = NoValue
    /\ dailyFeedback = NoValue
    /\ lastPerformances = <<>>
    /\ adjustedWorkout = 0
    /\ explanations = <<>>
    /\ readiness = 0
    /\ volumeAdjustmentResult = NoValue
    /\ result = NoValue

UnchangedEngine ==
    UNCHANGED <<plannedWorkout, snapshot, dailyFeedback, lastPerformances,
                adjustedWorkout, explanations, readiness,
                volumeAdjustmentResult, result>>

\* engine.calculateReadiness(feedback)
SleepDomain == 0..10
SorenessDomain == 0..6
StressDomain == {"Low", "Medium", "High"}

InitReadiness ==
    /\ Idle
    /\ pc = "calculateReadiness"
    /\ \E sl \in SleepDomain, so \in SorenessDomain, st \in StressDomain :
          args = Feedback(sl, so, st, <<>>)
    /\ ret = NoValue

CallCalculateReadiness ==
    /\ pc = "calculateReadiness"
    /\ ret' = calculateReadiness(args)
    /\ pc' = "calculateReadiness.done"
    /\ UNCHANGED <<heap, args>>
    /\ UnchangedEngine

SpecReadiness == InitReadiness /\ [][CallCalculateReadiness]_vars

\* Autoregulator.adjustLoad(currentWeight, rpe, targetRpe, missedReps)
WeightDomain == {20000, 60000, 80000, 100000}
RpeDomain == {60, 65, 70, 75, 80, 85, 90, 95, 100}
TargetRpeDomain == {<<>>, <<70>>, <<80>>, <<90>>}
MissedRepsDomain == {<<>>, <<TRUE>>, <<FALSE>>}

InitLoad ==
    /\ Idle
    /\ pc = "adjustLoad"
    /\ \E w \in WeightDomain, r \in RpeDomain, t \in TargetRpeDomain,
          m \in MissedRepsDomain :
          args = [currentWeight |-> w, rpe |-> r, targetRpe |-> t,
                  missedReps |-> m]
    /\ ret = NoValue

CallAdjustLoad ==
    /\ pc = "adjustLoad"
    /\ ret' = adjustLoad(args.currentWeight, args.rpe, args.targetRpe,
                         args.missedReps)
    /\ pc' = "adjustLoad.done"
    /\ UNCHANGED <<heap, args>>
    /\ UnchangedEngine

SpecLoad == InitLoad /\ [][CallAdjustLoad]_vars

\* Autoregulator.adjustVolume(plannedWorkout, readinessScore)
SetCounts == 1..5
ScoreDomain == {0, 25, 39, 40, 45, 59, 60, 85, 100}

VolumeExercises ==
    {[e EXCEPT !.sets = n] :
        e \in {Exercise(id_sq, BarbellSquat, "compound", <<"quads">>, 100000, 3, 5),
               Exercise(id_row, BarbellRow, "compound", <<"back">>, 60000, 3, 10)},
        n \in SetCounts}

InitVolume ==
    /\ \E p \in {q \in SeqsUpTo(VolumeExercises, MaxExercises) : Len(q) >= 1},
          sc \in ScoreDomain :
          /\ heap = WorkoutHeap(p)
          /\ plannedWorkout = Len(p) + 1
          /\ snapshot = DeepValue(WorkoutHeap(p), Len(p) + 1)
          /\ args = [plannedWorkout |-> Len(p) + 1, readinessScore |-> sc]
    /\ pc = "adjustVolume"
    /\ dailyFeedback = NoValue
    /\ lastPerformances = <<>>
    /\ adjustedWorkout = 0
    /\ explanations = <<>>
    /\ readiness = 0
    /\ volumeAdjustmentResult = NoValue
    /\ result = NoValue
    /\ ret = NoValue

CallAdjustVolume ==
    /\ pc = "adjustVolume"
    /\ LET v == adjustVolume(heap, args.plannedWorkout, args.readinessScore)
       IN  /\ heap' = v.heap
           /\ ret' = [workout |-> v.workout, type |-> v.type]
    /\ pc' = "adjustVolume.done"
    /\ UNCHANGED args
    /\ UnchangedEngine

SpecVolume == InitVolume /\ [][CallAdjustVolume]_vars

\* TransparencyService.explainAdjustment(adjustmentType, context)
KindDomain ==
    {"LOAD_INCREASE", "LOAD_DECREASE", "VOLUME_REDUCTION", "DELOAD",
     "INJURY_SUBSTITUTION", "MAINTENANCE", "SUPERSET", ""}

\* undefined, null, the empty object, and the contexts the engine builds
ContextDomain ==
    {NoValue, Null, <<>>,
     [lastRpe |-> 70],
     [lastRpe |-> 70, increaseAmount |-> 25],
     [lastRpe |-> 100, increaseAmount |-> 0 - 50],
     [sleepHours |-> 5, setsRemoved |-> "20%"],
     [sleepHours |-> 4, setsRemoved |-> "50%"],
     [painLocation |-> left_knee, originalExercise |-> BarbellSquat,
      newExercise |-> GluteBridge]}

InitExplain ==
    /\ Idle
    /\ pc = "explainAdjustment"
    /\ \E k \in KindDomain, c \in ContextDomain :
          args = [adjustmentType |-> k, context |-> c]
    /\ ret = NoValue

CallExplainAdjustment ==
    /\ pc = "explainAdjustment"
    /\ ret' = explainAdjustment(args.adjustmentType, args.context)
    /\ pc' = "explainAdjustment.done"
    /\ UNCHANGED <<heap, args>>
    /\ UnchangedEngine

SpecExplain == InitExplain /\ [][CallExplainAdjustment]_vars

-----------------------------------------------------------------------------
(* Calls of generateDailyWorkout whose plan holds an exercise that is risky
   for two body parts and planned for a single set *)

\* a squat-to-press of one set, risky for the knee ("Squat") and for the
\* shoulder ("Overhead Press"), and the row of the test scenarios
FlagExercises ==
    {Exercise(id_th, SquatToOverheadPress, "compound", <<"quads", "shoulders">>,
              20000, 1, 5),
     Exercise(id_row, BarbellRow, "compound", <<"back">>, 60000, 3, 10)}

\* a flag for each key of the risk map, and a back flag written with capitals
FlagAreas == {left_knee, shoulder, back, Lower_Back}

\* no history, or an easy session of the squat-to-press
FlagHistories == {<<>>, <<ExercisePerformance(id_th, 20000, 5, 1, 70)>>}

InitFlags ==
    /\ \E p \in {q \in SeqsUpTo(FlagExercises, MaxExercises) :
                    /\ Len(q) >= 1
                    /\ \A i, j \in 1..Len(q) : i # j => q[i].id # q[j].id} :
          /\ heap = WorkoutHeap(p)
          /\ plannedWorkout = Len(p) + 1
          /\ snapshot = DeepValue(WorkoutHeap(p), Len(p) + 1)
    /\ \E fb \in FeedbackCases, fl \in SeqsUpTo(FlagAreas, MaxFlags) :
          dailyFeedback = Feedback(fb[1], fb[2], fb[3], fl)
    /\ lastPerformances \in FlagHistories
    /\ pc = "safety"
    /\ adjustedWorkout = 0
    /\ explanations = <<>>
    /\ readiness = 0
    /\ volumeAdjustmentResult = NoValue
    /\ result = NoValue
    /\ args = NoValue
    /\ ret = NoValue

SpecFlags == InitFlags /\ [][Next]_vars

-----------------------------------------------------------------------------
(* Properties *)

\* the working workout and the returned workout, as deep values
Adjusted == DeepValue(heap, adjustedWorkout)
Returned == DeepValue(heap, result.workout)

\* some explanation was pushed by the given stage
HasStage(n) == \E k \in 1..Len(explanations) : explanations[k].origin[1] = n

\* C1: the plan passed to generateDailyWorkout is never mutated: at every
\* point of the call and after it, the plan is deep-equal to the snapshot
\* taken before the call.
C1_PlanNeverMutated == DeepValue(heap, plannedWorkout) = snapshot

\* a call that substituted an exercise, cut the volume and progressed a load
C1_Witness ==
    /\ pc = "done"
    /\ HasStage(1) /\ HasStage(2) /\ HasStage(3)
    /\ Returned.exercises # snapshot.exercises

\* C2: calculateReadiness returns a score s with 0 <= s <= 100 for every
\* feedback record.
C2_ReadinessInRange ==
    pc = "calculateReadiness.done" => (ret >= 0 /\ ret <= 100)

\* the feedback on which every penalty applies
C2_Witness ==
    /\ pc = "calculateReadiness.done"
    /\ args.sleepQuality <= 4 /\ args.soreness = 5 /\ args.stressLevel = "High"

ScenarioB ==
    /\ pc = "calculateReadiness.done"
    /\ args.sleepQuality = 5 /\ args.soreness = 3 /\ args.stressLevel = "High"

HalfFloor(n) == CHOOSE k \in 0..n : 2 * k <= n /\ 2 * (k + 1) > n

Designated(ex, key) ==
    IF key = knee
    THEN [name |-> GluteBridge, weight |-> 0, sets |-> 3, reps |-> 15,
          id |-> ex.id \o SubSuffix]
    ELSE IF key = shoulder
    THEN [name |-> PushUpNeutralGrip, weight |-> 0, sets |-> 3, reps |-> 12,
          id |-> ex.id \o SubSuffix]
    ELSE [name |-> ChestSupportedRow, weight |-> (7 * ex.weight) \div 10,
          sets |-> 3, reps |-> 10, id |-> ex.id \o SubSuffix]

\* the keys for which the flag, in any letter case, and the exercise match
MatchingKeys(ex, flag) ==
    {k \in 1..Len(riskMap) :
        /\ includes(toLowerCase(flag), riskMap[k].key)
        /\ \E r \in 1..Len(riskMap[k].riskyList) :
               includes(ex.name, riskMap[k].riskyList[r])}

\* the exercises the injury stage is to produce from exs, flag after flag
RECURSIVE ExpectedSafety(_, _, _)
ExpectedSafety(exs, flags, f) ==
    IF f > Len(flags) THEN exs
    ELSE ExpectedSafety(
            [i \in 1..Len(exs) |->
                IF MatchingKeys(exs[i], flags[f]) # {}
                THEN Designated(exs[i],
                        riskMap[CHOOSE k \in MatchingKeys(exs[i], flags[f]) :
                                    \A m \in MatchingKeys(exs[i], flags[f]) : k <= m].key)
                ELSE exs[i]],
            flags, f + 1)

\* C6: for every pain flag containing a body-part key in any letter case and
\* every exercise of the working workout whose name contains one of that
\* key's risky names, the injury stage replaces the slot with that body
\* part's designated substitute (knee: Glute Bridge 0 kg 3x15; shoulder:
\* neutral-grip push-up 0 kg 3x12; back: chest-supported row at 0.7 x weight,
\* 3x10; id = original id + suffix); other exercises are left unaltered.
C6_DesignatedSubstitute ==
    pc = "volume" =>
        Adjusted.exercises =
            ExpectedSafety(snapshot.exercises, dailyFeedback.painFlags, 1)

\* id is base followed by one or more "_sub"
IsSuffixed(id, base) ==
    /\ Len(id) > Len(base)
    /\ SubSeq(id, 1, Len(base)) = base
    /\ (Len(id) - Len(base)) % Len(SubSuffix) = 0
    /\ \A j \in 0..((Len(id) - Len(base)) \div Len(SubSuffix) - 1) :
          SubSeq(id, Len(base) + j * Len(SubSuffix) + 1,
                 Len(base) + (j + 1) * Len(SubSuffix)) = SubSuffix

\* slot holds a substitute made for the planned exercise: a designated
\* substitute under a derived id, or the rest placeholder of a reported flag
IsSubstituteFor(slot, planned) ==
    \/ /\ slot.name \in {GluteBridge, PushUpNeutralGrip, ChestSupportedRow}
       /\ IsSuffixed(slot.id, planned.id)
    \/ /\ slot.id = id_rest
       /\ \E f \in 1..Len(dailyFeedback.painFlags) :
             slot.name = RestPrefix \o dailyFeedback.painFlags[f] \o RestSuffix

\* C7: the returned workout has exactly as many slots as the plan, and slot i
\* is the plan's exercise i (same id and name) or a substitute produced for
\* it: no slot is removed, added or reordered.
C7_SlotsPreserved ==
    pc = "done" =>
        /\ Len(Returned.exercises) = Len(snapshot.exercises)
        /\ \A i \in 1..Len(snapshot.exercises) :
              \/ /\ Returned.exercises[i].id = snapshot.exercises[i].id
                 /\ Returned.exercises[i].name = snapshot.exercises[i].name
              \/ IsSubstituteFor(Returned.exercises[i], snapshot.exercises[i])

\* a two-slot call whose first slot was substituted and whose second slot
\* was kept, with volume cut and a load changed
C7_Witness ==
    /\ pc = "done"
    /\ Len(snapshot.exercises) = 2
    /\ IsSubstituteFor(Returned.exercises[1], snapshot.exercises[1])
    /\ Returned.exercises[2].id = snapshot.exercises[2].id
    /\ HasStage(2) /\ HasStage(3)

\* the weights of the exercises of workout w, in slot order
Weights(h, w) == [i \in 1..Len(h[w].exercises) |-> h[h[w].exercises[i]].weight]

\* C8: when the computed readiness is below 40, load progression is skipped:
\* from the substitution on, no step changes an exercise weight, no
\* LOAD_INCREASE or LOAD_DECREASE explanation is emitted, and the volume
\* result type is DELOAD.
C8_NoLoadOnDeload ==
    [][(pc \in {"volume", "load"} /\ readiness' < 40) =>
          /\ Weights(heap', adjustedWorkout') = Weights(heap, adjustedWorkout)
          /\ \A k \in 1..Len(explanations') :
                explanations'[k].text.template \notin {"LOAD_INCREASE", "LOAD_DECREASE"}
          /\ volumeAdjustmentResult'.type = "DELOAD"]_vars

\* a deload call whose history holds a record for a returned exercise
C8_Witness ==
    /\ pc = "done"
    /\ readiness < 40
    /\ volumeAdjustmentResult.type = "DELOAD"
    /\ \E i \in 1..Len(Returned.exercises) :
          find(lastPerformances, Returned.exercises[i].id) # 0

\* lexicographic order on <<stage, flag, slot>>
Before(a, b) ==
    \/ a[1] < b[1]
    \/ a[1] = b[1] /\ a[2] < b[2]
    \/ a[1] = b[1] /\ a[2] = b[2] /\ a[3] < b[3]

\* the explanation kinds each stage emits
StageKinds(n) ==
    IF n = 1 THEN {"INJURY_SUBSTITUTION"}
    ELSE IF n = 2 THEN {"DELOAD", "VOLUME_REDUCTION"}
    ELSE {"LOAD_INCREASE", "LOAD_DECREASE"}

\* C9: the returned explanations are in rule-evaluation order, one entry per
\* triggered rule: the INJURY_SUBSTITUTION explanations first (by pain flag,
\* then by slot), then at most one volume explanation (present exactly when
\* readiness < 60), then the load explanations in slot order.
C9_ExplanationOrder ==
    pc = "done" =>
        LET e == result.explanations
        IN  /\ \A j, k \in 1..Len(e) : j < k => Before(e[j].origin, e[k].origin)
            /\ \A k \in 1..Len(e) :
                  /\ e[k].text.template \in StageKinds(e[k].origin[1])
                  /\ e[k].origin[1] = 1 =>
                        e[k].text.fields[1] = dailyFeedback.painFlags[e[k].origin[2]]
            /\ (result.readinessScore < 60) <=>
                  (\E k \in 1..Len(e) : e[k].origin[1] = 2)

\* substitutions under two flags, a volume cut and a load change in one call
C9_Witness ==
    /\ pc = "done"
    /\ \E j, k \in 1..Len(result.explanations) :
          /\ result.explanations[j].origin[1] = 1
          /\ result.explanations[k].origin[1] = 1
          /\ result.explanations[j].origin[2] < result.explanations[k].origin[2]
    /\ HasStage(2) /\ HasStage(3)
    /\ Len(result.explanations) >= 4

\* C10: in the returned workout every weight produced by scaling an earlier
\* weight by a percentage (load increase, load decrease, or a substitute's
\* weight derived as a fraction of the original weight) is a multiple of 2.5.
C10_ScaledWeightsRounded ==
    pc = "done" =>
        \A i \in 1..Len(Returned.exercises) :
            (\/ \E k \in 1..Len(result.explanations) :
                    result.explanations[k].origin = <<3, 0, i>>
             \/ Returned.exercises[i].name = ChestSupportedRow)
            => Returned.exercises[i].weight % 2500 = 0

\* the pain flags of the call for which the planned exercise is risky
RiskyFlags(planned) ==
    {f \in 1..Len(dailyFeedback.painFlags) :
        isExerciseRisky(planned, dailyFeedback.painFlags[f])}

\* the last element of a non-empty set of flag indices
LastOf(F) == CHOOSE f \in F : \A g \in F : g <= f

\* C11: pain flags are processed in the order supplied, and when the planned
\* exercise of a slot is risky for two flags of the call, the later flag's
\* substitution wins: the returned slot holds the substitute (by name) that
\* the last such flag designates.
C11_LaterFlagWins ==
    pc = "done" =>
        \A i \in 1..Len(snapshot.exercises) :
            LET F == RiskyFlags(snapshot.exercises[i])
            IN  (\E f, g \in F : f # g) =>
                    Returned.exercises[i].name =
                        getSafeSubstitution(snapshot.exercises[i],
                            dailyFeedback.painFlags[LastOf(F)]).name

\* the history without the records whose exerciseId is no id of the plan
PlanRecords(perfs) ==
    SelectSeq(perfs, LAMBDA p :
        \E i \in 1..Len(snapshot.exercises) :
            snapshot.exercises[i].id = p.exerciseId)

\* C12: a performance record whose exerciseId equals no exercise id of the
\* planned workout is ignored: load progression leaves the workout and the
\* explanations as it would with those records removed from the history; in
\* particular a substituted slot receives no load progression.
C12_ForeignRecordsIgnored ==
    [][(pc = "load" /\ readiness >= 40) =>
          LET r == LoadProgression(heap, adjustedWorkout,
                                   PlanRecords(lastPerformances), explanations)
          IN  /\ DeepValue(heap', adjustedWorkout') =
                    DeepValue(r.heap, adjustedWorkout)
              /\ explanations' = r.explanations]_vars

\* the input of the call is invalid: a required feedback field is missing, a
\* sleep or soreness value is not a number of 1..5, or the plan is empty
InvalidInput ==
    \/ ~({"sleepQuality", "soreness", "stressLevel", "painFlags"}
            \subseteq DOMAIN dailyFeedback)
    \/ dailyFeedback.sleepQuality \notin 1..5
    \/ dailyFeedback.soreness \notin 1..5
    \/ Len(snapshot.exercises) = 0

\* C13: generateDailyWorkout rejects invalid input by failing the call: a
\* call whose input is invalid returns no decision result (no readiness
\* score, no adjusted workout, no explanations).
C13_InvalidInputRejected ==
    (pc = "done" /\ result # NoValue) => ~InvalidInput

KnownKinds ==
    {"LOAD_INCREASE", "LOAD_DECREASE", "VOLUME_REDUCTION", "DELOAD",
     "INJURY_SUBSTITUTION", "MAINTENANCE"}

\* C14: explainAdjustment(kind, context) never raises an error, for every
\* kind (known or unrecognized) and every context, an absent (null or
\* undefined) and an empty context included; an unrecognized kind returns the
\* generic fallback text.
C14_ExplainNeverThrows ==
    pc = "explainAdjustment.done" =>
        /\ "error" \notin DOMAIN ret
        /\ args.adjustmentType \notin KnownKinds => ret.template = "default"

\* ex is a rest placeholder of a pain flag of the call
IsRestPlaceholder(ex) ==
    /\ ex.id = id_rest
    /\ \E f \in 1..Len(dailyFeedback.painFlags) :
          ex.name = RestPrefix \o dailyFeedback.painFlags[f] \o RestSuffix

\* C15: for a plan whose exercises all have sets >= 1, every exercise of the
\* returned workout has sets >= 1 unless it is a rest placeholder: volume
\* reduction and deload never bring a set count to 0.
C15_SetsAtLeastOne ==
    (pc = "done" /\ \A i \in 1..Len(snapshot.exercises) :
                        snapshot.exercises[i].sets >= 1) =>
        \A i \in 1..Len(Returned.exercises) :
            \/ Returned.exercises[i].sets >= 1
            \/ IsRestPlaceholder(Returned.exercises[i])

\* a volume reduction that left a one-set exercise at one set, next to a
\* rest placeholder of zero sets
C15_Witness ==
    /\ pc = "done"
    /\ volumeAdjustmentResult.type = "VOLUME_REDUCTION"
    /\ \E i, j \in 1..Len(Returned.exercises) :
          /\ snapshot.exercises[i].sets = 1
          /\ Returned.exercises[i].id = snapshot.exercises[i].id
          /\ Returned.exercises[i].sets = 1
          /\ IsRestPlaceholder(Returned.exercises[j])
          /\ Returned.exercises[j].sets = 0

\* the explanations pushed by load progression for slot i
LoadExplanations(i) ==
    {k \in 1..Len(result.explanations) :
        result.explanations[k].origin = <<3, 0, i>>}

\* C16: in load progression (readiness >= 40), for every exercise with a
\* matching performance record, a load explanation is appended exactly when
\* the resulting weight differs from the record's weight, strictly greater
\* for LOAD_INCREASE and strictly smaller for LOAD_DECREASE; with no
\* explanation the resulting weight is the record's weight.
C16_ExplanationIffChange ==
    (pc = "done" /\ result.readinessScore >= 40) =>
        \A i \in 1..Len(Returned.exercises) :
            LET ex == Returned.exercises[i]
                k == find(lastPerformances, ex.id)
            IN  k # 0 =>
                  /\ (LoadExplanations(i) # {}) <=>
                        (ex.weight # lastPerformances[k].weight)
                  /\ \A e \in LoadExplanations(i) :
                        LET kind == result.explanations[e].text.template
                        IN  /\ kind = "LOAD_INCREASE" =>
                                  ex.weight > lastPerformances[k].weight
                            /\ kind = "LOAD_DECREASE" =>
                                  ex.weight < lastPerformances[k].weight

\* C17: substitution is applied at most once per planned slot, whatever the
\* sequence of pain flags: after the injury stage each slot has at most one
\* INJURY_SUBSTITUTION explanation, its id is the planned id, the planned id
\* with one suffix or the rest id, and a back substitute weighs exactly
\* 0.7 x the planned weight.
C17_SubstitutedAtMostOnce ==
    pc = "volume" =>
        \A i \in 1..Len(snapshot.exercises) :
            LET planned == snapshot.exercises[i]
                ex == Adjusted.exercises[i]
            IN  /\ Cardinality({k \in 1..Len(explanations) :
                        /\ explanations[k].origin[1] = 1
                        /\ explanations[k].origin[3] = i}) <= 1
                /\ ex.id \in {planned.id, planned.id \o SubSuffix, id_rest}
                /\ ex.name = ChestSupportedRow =>
                        10 * ex.weight = 7 * planned.weight

\* C18: a rest placeholder stays zero-volume through the whole pipeline:
\* every slot of the returned workout that is a rest placeholder has sets,
\* reps and weight 0, for every readiness score and every history.
C18_RestStaysZero ==
    pc = "done" =>
        \A i \in 1..Len(Returned.exercises) :
            IsRestPlaceholder(Returned.exercises[i]) =>
                /\ Returned.exercises[i].sets = 0
                /\ Returned.exercises[i].reps = 0
                /\ Returned.exercises[i].weight = 0

====
